---- MODULE Spec2Model ----
(***************************************************************************)
(* Model of typed-builder-macro/src/util.rs: the attribute-argument        *)
(* grammar (AttrArg), the ApplyMeta protocol as implemented by             *)
(* MutatorAttribute, and Mutator parsing / signature derivation.           *)
(*                                                                         *)
(* Tokens are strings.  A delimited group is one token (as in a            *)
(* proc_macro2 TokenStream); Inner gives the token stream it encloses.     *)
(***************************************************************************)
EXTENDS Integers, Sequences, FiniteSets, TLC

\* ---------------------------------------------------------------- bounds
MaxLen == 3      \* longest free-form token stream
MaxArgs == 3     \* most comma-separated items in a generated body
MaxAttrs == 3    \* most attributes on a declaration
MaxParams == 3   \* most parameters of a declaration

\* ---------------------------------------------------------------- tokens
Idents == {"requires", "a", "b", "x", "y", "__2"}
Lits == {"1"}
ParenGroups == {"(a,b)", "(requires=[a],b)"}
BracketGroups == {"[a]", "[b,a]", "[a,a]", "[a,1]", "[a b]"}

\* The token stream enclosed by a group token.
Inner(t) ==
  CASE t = "(a,b)" -> <<"a", ",", "b">>
    [] t = "(requires=[a],b)" -> <<"requires", "=", "[a]", ",", "b">>
    [] t = "[a]" -> <<"a">>
    [] t = "[b,a]" -> <<"b", ",", "a">>
    [] t = "[a,a]" -> <<"a", ",", "a">>
    [] t = "[a,1]" -> <<"a", ",", "1">>
    [] t = "[a b]" -> <<"a", "b">>
    [] OTHER -> <<>>

SeqsUpTo(S, n) == UNION {[1..k -> S] : k \in 0..n}

Drop(s, n) == SubSeq(s, n + 1, Len(s))

\* ---------------------------------------------------------------- AttrArg
\* enum AttrArg: every variant carries its name; value holds the KeyValue
\* value tokens or the SubAttr args tokens.
MkArg(variant, name, value) == [variant |-> variant, name |-> name, value |-> value]
NoArg == MkArg("none", "", <<>>)

\* AttrArg::name
name(arg) == arg.name

\* syn::Error values: the message, and for incorrect_type the name and shape.
MkErr(msg, n, shape) == [msg |-> msg, name |-> n, shape |-> shape]
Ok == MkErr("ok", "", "")
ParseError == MkErr("parse error", "", "")

\* AttrArg::incorrect_type
incorrect_type(arg) ==
  MkErr("incorrect type", arg.name,
        CASE arg.variant = "Flag" -> "is not supported as a flag"
          [] arg.variant = "KeyValue" -> "is not supported as key-value"
          [] arg.variant = "Sub" -> "is not supported as nested attribute"
          [] OTHER -> "cannot be nullified")

\* Result of a parse: ok flag, the value, and the unconsumed input.
Parsed(arg, rest) == [ok |-> TRUE, arg |-> arg, rest |-> rest]
Failed(rest) == [ok |-> FALSE, arg |-> NoArg, rest |-> rest]

\* <TokenStream as Parse>::parse, as called for KeyValue.value: takes every
\* remaining token of the stream and leaves the stream empty.
ParseTokenStream(input) == [value |-> input, rest |-> <<>>]

\* A parser without the final error branch: a name followed by an
\* unexpected token is taken as a flag.
ParseAttrArgLenient(input) ==
  IF input # <<>> /\ Head(input) = "!"
  THEN IF Len(input) >= 2 /\ input[2] \in Idents
       THEN Parsed(MkArg("Not", input[2], <<>>), Drop(input, 2))
       ELSE Failed(Tail(input))
  ELSE IF input = <<>> \/ Head(input) \notin Idents
       THEN Failed(input)
       ELSE LET n == Head(input)
                after == Tail(input)
            IN IF after # <<>> /\ Head(after) \in ParenGroups
               THEN Parsed(MkArg("Sub", n, Inner(Head(after))), Tail(after))
               ELSE IF after # <<>> /\ Head(after) = "="
               THEN Parsed(MkArg("KeyValue", n, Tail(after)), <<>>)
               ELSE Parsed(MkArg("Flag", n, <<>>), after)

\* <AttrArg as Parse>::parse
ParseAttrArg(input) ==
  IF input # <<>> /\ Head(input) = "!"
  THEN IF Len(input) >= 2 /\ input[2] \in Idents
       THEN Parsed(MkArg("Not", input[2], <<>>), Drop(input, 2))
       ELSE Failed(Tail(input))
  ELSE IF input = <<>> \/ Head(input) \notin Idents
       THEN Failed(input)
       ELSE LET n == Head(input)
                after == Tail(input)
            IN IF after = <<>> \/ Head(after) = ","
               THEN Parsed(MkArg("Flag", n, <<>>), after)
               ELSE IF Head(after) \in ParenGroups
               THEN Parsed(MkArg("Sub", n, Inner(Head(after))), Tail(after))
               ELSE IF Head(after) = "="
               THEN LET v == ParseTokenStream(Tail(after))
                    IN Parsed(MkArg("KeyValue", n, v.value), v.rest)
               ELSE Failed(after)

\* Punctuated::<AttrArg, Token![,]>::parse_terminated followed by the
\* end-of-input check of Parser::parse2: the list of arguments, or a failure.
RECURSIVE ParseTerminated(_)
ParseTerminated(input) ==
  IF input = <<>> THEN [ok |-> TRUE, exprs |-> <<>>]
  ELSE LET p == ParseAttrArg(input)
       IN IF ~p.ok THEN [ok |-> FALSE, exprs |-> <<>>]
          ELSE IF p.rest = <<>> THEN [ok |-> TRUE, exprs |-> <<p.arg>>]
          ELSE IF Head(p.rest) # "," THEN [ok |-> FALSE, exprs |-> <<>>]
          ELSE LET r == ParseTerminated(Tail(p.rest))
               IN IF r.ok THEN [ok |-> TRUE, exprs |-> <<p.arg>> \o r.exprs]
                  ELSE r

\* ---------------------------------------------------------------- accessors
\* Result of a narrowing accessor: the error (or Ok), whether a payload is
\* returned (Some / the value itself), and the payload.
AccOk(arg) == [res |-> Ok, some |-> TRUE, payload |-> arg]
AccNone == [res |-> Ok, some |-> FALSE, payload |-> NoArg]
AccErr(arg) == [res |-> incorrect_type(arg), some |-> FALSE, payload |-> NoArg]

\* AttrArg::flag
flag(arg) == IF arg.variant = "Flag" THEN AccOk(arg) ELSE AccErr(arg)

\* AttrArg::key_value
key_value(arg) == IF arg.variant = "KeyValue" THEN AccOk(arg) ELSE AccErr(arg)

\* An accessor that lets every variant but Sub through.
key_value_or_not_lax(arg) ==
  CASE arg.variant = "KeyValue" -> AccOk(arg)
    [] arg.variant = "Sub" -> AccErr(arg)
    [] OTHER -> AccNone

\* AttrArg::key_value_or_not
key_value_or_not(arg) ==
  CASE arg.variant = "KeyValue" -> AccOk(arg)
    [] arg.variant = "Not" -> AccNone
    [] OTHER -> AccErr(arg)

\* AttrArg::sub_attr
sub_attr(arg) == IF arg.variant = "Sub" THEN AccOk(arg) ELSE AccErr(arg)

\* ---------------------------------------------------------------- values
\* Punctuated::<Expr, Token![,]> inside the brackets of an array expression,
\* for element tokens that are identifiers, literals and commas: each
\* element is one token, two adjacent element tokens or an empty element
\* are a syntax error, a trailing comma is accepted.
RECURSIVE ParseElems(_)
ParseElems(inner) ==
  IF inner = <<>> THEN [ok |-> TRUE, elems |-> <<>>]
  ELSE IF Head(inner) \notin (Idents \cup Lits) THEN [ok |-> FALSE, elems |-> <<>>]
  ELSE IF Len(inner) = 1 THEN [ok |-> TRUE, elems |-> <<Head(inner)>>]
  ELSE IF inner[2] # "," THEN [ok |-> FALSE, elems |-> <<>>]
  ELSE LET r == ParseElems(Drop(inner, 2))
       IN IF r.ok THEN [ok |-> TRUE, elems |-> <<Head(inner)>> \o r.elems] ELSE r

\* KeyValue::parse_value::<Expr> (syn::parse2 of the whole value): "Array"
\* with its elements when the value is exactly one bracket group holding a
\* well-formed element list; "Other" when syn rejects the tokens or they
\* form an expression that is not an array.
parse_value(value) ==
  IF Len(value) = 1 /\ value[1] \in BracketGroups
  THEN LET r == ParseElems(Inner(value[1]))
       IN IF r.ok THEN [kind |-> "Array", elems |-> r.elems]
          ELSE [kind |-> "Other", elems |-> <<>>]
  ELSE [kind |-> "Other", elems |-> <<>>]

\* Error of a value that is not an array expression: the syn error of
\* parse_value, or "Only list of field names [field1, field2, ...] supported".
ValueError == MkErr("value is not a list of field names", "", "")
ExpectedFieldName == MkErr("Expected field name", "", "")
OnlyRequires(n) == MkErr("Only requires is supported", n, "")
ExpectedBuilder == MkErr("Expected builder", "", "")

Range(s) == {s[j] : j \in 1..Len(s)}

\* An assignment in place of the extension.
ExtendOverwrite(requires, elems) == Range(elems)

\* HashSet::extend: the set with every element of the vector inserted.
Extend(requires, elems) == requires \cup Range(elems)

\* The elements of a list before its first element that is no identifier.
RECURSIVE IdentPrefix(_)
IdentPrefix(elems) ==
  IF elems = <<>> \/ Head(elems) \notin Idents THEN <<>>
  ELSE <<Head(elems)>> \o IdentPrefix(Tail(elems))

\* An apply_meta that inserts the field names one by one and stops at the
\* first element that is not one.
apply_meta_eager(requires, expr) ==
  IF expr.name # "requires"
  THEN [requires |-> requires, res |-> OnlyRequires(expr.name)]
  ELSE IF expr.variant # "KeyValue"
  THEN [requires |-> requires, res |-> incorrect_type(expr)]
  ELSE LET e == parse_value(expr.value)
       IN IF e.kind # "Array"
          THEN [requires |-> requires, res |-> ValueError]
          ELSE IF \E j \in 1..Len(e.elems) : e.elems[j] \notin Idents
          THEN [requires |-> requires \cup Range(IdentPrefix(e.elems)),
                res |-> ExpectedFieldName]
          ELSE [requires |-> requires \cup Range(e.elems), res |-> Ok]

\* <MutatorAttribute as ApplyMeta>::apply_meta: the new requires set and
\* the result.
apply_meta(requires, expr) ==
  IF name(expr) # "requires"
  THEN [requires |-> requires, res |-> OnlyRequires(name(expr))]
  ELSE LET kv == key_value(expr)
       IN IF kv.res # Ok THEN [requires |-> requires, res |-> kv.res]
          ELSE LET e == parse_value(kv.payload.value)
               IN IF e.kind # "Array"
                  THEN [requires |-> requires, res |-> ValueError]
                  ELSE IF \E j \in 1..Len(e.elems) : e.elems[j] \notin Idents
                  THEN [requires |-> requires, res |-> ExpectedFieldName]
                  ELSE [requires |-> Extend(requires, e.elems), res |-> Ok]

\* for expr in exprs { self.apply_meta(expr)?; }: the record, the result and
\* the arguments apply_meta was called on.
RECURSIVE ApplyEach(_, _)
ApplyEach(requires, exprs) ==
  IF exprs = <<>> THEN [requires |-> requires, res |-> Ok, calls |-> <<>>]
  ELSE LET r == apply_meta(requires, Head(exprs))
       IN IF r.res # Ok
          THEN [requires |-> r.requires, res |-> r.res, calls |-> <<Head(exprs)>>]
          ELSE LET t == ApplyEach(r.requires, Tail(exprs))
               IN [requires |-> t.requires, res |-> t.res,
                   calls |-> <<Head(exprs)>> \o t.calls]

\* ApplyMeta::apply_sub_attr
apply_sub_attr(requires, attr_arg) ==
  LET s == sub_attr(attr_arg)
  IN IF s.res # Ok THEN [requires |-> requires, res |-> s.res, calls |-> <<>>]
     ELSE LET p == ParseTerminated(s.payload.value)
          IN IF ~p.ok THEN [requires |-> requires, res |-> ParseError, calls |-> <<>>]
             ELSE ApplyEach(requires, p.exprs)

\* ApplyMeta::apply_subsections
apply_subsections(requires, tokens) ==
  IF tokens = <<>> THEN [requires |-> requires, res |-> ExpectedBuilder, calls |-> <<>>]
  ELSE LET p == ParseTerminated(tokens)
       IN IF ~p.ok THEN [requires |-> requires, res |-> ParseError, calls |-> <<>>]
          ELSE ApplyEach(requires, p.exprs)

\* ApplyMeta::apply_attr: attr.meta is a Meta::List or something else.
apply_attr(requires, attr) ==
  IF attr.meta = "List" THEN apply_subsections(requires, attr.tokens)
  ELSE [requires |-> requires, res |-> ExpectedBuilder, calls |-> <<>>]

\* ---------------------------------------------------------------- Mutator
\* An Attribute: its path, whether its meta is a Meta::List, and the list's
\* tokens.
MkAttr(path, meta, tokens) == [path |-> path, meta |-> meta, tokens |-> tokens]

\* FnArg::Receiver in one of its forms, and FnArg::Typed with its pattern:
\* Pat::Ident (plain is FALSE when it carries mut, ref or a subpattern) or
\* another pattern kind, and the declared type.
Receiver(form) ==
  [kind |-> "Receiver", form |-> form, pat |-> "", ident |-> "", plain |-> TRUE, ty |-> ""]
Typed(pat, ident, plain, ty) ==
  [kind |-> "Typed", form |-> "", pat |-> pat, ident |-> ident, plain |-> plain, ty |-> ty]

ReceiverError == MkErr("mutator needs to take a reference to self", "", "")

\* Vec::remove(i), i counted from zero.
Remove(attrs, i) == SubSeq(attrs, 1, i) \o SubSeq(attrs, i + 2, Len(attrs))

\* A loop that also advances i after removing.
ScanRemovedAdvance(attrs, i) == [attrs |-> Remove(attrs, i), i |-> i + 1]

\* The branch of the attribute loop that has applied a mutator attribute:
\* it is removed and i stays.
ScanRemoved(attrs, i) == [attrs |-> Remove(attrs, i), i |-> i]

\* A check that only asks for a first parameter.
EnsureReceiverAny(inputs) ==
  IF inputs # <<>>
  THEN [ok |-> TRUE, inputs |-> <<Receiver("&mut self")>> \o Tail(inputs)]
  ELSE [ok |-> FALSE, inputs |-> inputs]

\* if let Some(FnArg::Receiver(receiver)) = fun.sig.inputs.first_mut():
\* whether the check passes, and the inputs with the receiver rewritten.
EnsureReceiver(inputs) ==
  IF inputs # <<>> /\ inputs[1].kind = "Receiver"
  THEN [ok |-> TRUE, inputs |-> <<Receiver("&mut self")>> \o Tail(inputs)]
  ELSE [ok |-> FALSE, inputs |-> inputs]

\* pat_to_ident
pat_to_ident(i, pat) ==
  IF pat.pat = "Ident" THEN pat.ident ELSE "__" \o ToString(i)

\* Mutator::outer_sig
outer_sig(fun, output) ==
  [output |-> output,
   inputs |-> [j \in 1..Len(fun.inputs) |->
                 IF fun.inputs[j].kind = "Receiver" THEN Receiver("self")
                 ELSE Typed("Ident", pat_to_ident(j - 1, fun.inputs[j]), TRUE,
                            fun.inputs[j].ty)]]

\* Mutator::arguments: filter_map over the enumerated inputs, from the input
\* at (one-based) position j on.
RECURSIVE ArgumentsFrom(_, _)
ArgumentsFrom(inputs, j) ==
  IF j > Len(inputs) THEN <<>>
  ELSE (IF inputs[j].kind = "Receiver" THEN <<>>
        ELSE <<pat_to_ident(j - 1, inputs[j])>>) \o ArgumentsFrom(inputs, j + 1)

\* An enumeration that counts the parameters after the receiver is dropped.
arguments_after_filter(fun) ==
  LET typed == SelectSeq(fun.inputs, LAMBDA a : a.kind = "Typed")
  IN [j \in 1..Len(typed) |-> IF typed[j].pat = "Ident" THEN typed[j].ident
                              ELSE "__" \o ToString(j - 1)]

arguments(fun) == ArgumentsFrom(fun.inputs, 1)

\* ---------------------------------------------------------------- inputs
\* Free-form token streams.
ShortTokens == {"requires", "b", "1", ",", "=", "!", "(requires=[a],b)", "[a]"}
ShortStreams == SeqsUpTo(ShortTokens, MaxLen)

\* Attribute bodies written as comma-separated items.
Items == {<<"requires", "=", "[a]">>, <<"requires", "=", "[b,a]">>,
          <<"requires", "=", "[a,1]">>, <<"requires", "=", "[a b]">>,
          <<"requires", "=", "a">>,
          <<"requires">>, <<"!", "requires">>, <<"b">>,
          <<"requires", "(a,b)">>, <<"b", "=", "[a]">>}

RECURSIVE Join(_)
Join(items) ==
  IF items = <<>> THEN <<>>
  ELSE IF Len(items) = 1 THEN items[1]
  ELSE items[1] \o <<",">> \o Join(Tail(items))

Bodies == {Join(items) : items \in SeqsUpTo(Items, MaxArgs)}
Streams == ShortStreams \cup Bodies

\* MutatorAttribute values an apply operation can be called on.
Records == {{}, {"b"}}

Attrs == {MkAttr("doc", "List", <<"b">>), MkAttr("inline", "Path", <<>>),
          MkAttr("mutator", "Path", <<>>),
          MkAttr("mutator", "List", <<"requires", "=", "[a]">>),
          MkAttr("mutator", "List", <<"requires", "=", "[b,a]">>),
          MkAttr("mutator", "List", <<"requires", "=", "[a,a]">>),
          MkAttr("mutator", "List", <<"b">>)}
AttrLists == SeqsUpTo(Attrs, MaxAttrs)

Receivers == {Receiver("self"), Receiver("&self"), Receiver("&mut self")}
TypedArgs == {Typed("Ident", "x", TRUE, "i32"), Typed("Ident", "__2", TRUE, "i32"),
              Typed("Ident", "y", FALSE, "u8"), Typed("Tuple", "", TRUE, "(i32,i32)"),
              Typed("Wild", "", TRUE, "u8")}
\* syn accepts a receiver only as the first parameter of an ItemFn.
InputLists ==
  {<<>>} \cup
  {<<f>> \o r : f \in Receivers \cup TypedArgs, r \in SeqsUpTo(TypedArgs, MaxParams - 1)}

MkFn(attrs, inputs) == [attrs |-> attrs, inputs |-> inputs]
NoFn == MkFn(<<>>, <<>>)
FewInputs == {<<>>, <<Receiver("&mut self")>>, <<Typed("Ident", "x", TRUE, "i32")>>}
FewAttrs == {<<>>, <<MkAttr("mutator", "List", <<"requires", "=", "[a]">>)>>,
             <<MkAttr("mutator", "List", <<"b">>)>>}
Decls == {MkFn(a, n) : a \in AttrLists, n \in FewInputs}
         \cup {MkFn(a, n) : a \in FewAttrs, n \in InputLists}
Outputs == {"Self", "Builder"}

\* ---------------------------------------------------------------- state
VARIABLES
  pc,              \* where the caller is
  op,              \* the operation that ran last
  stream,          \* the token stream given to the operation
  arg,             \* result of <AttrArg as Parse>::parse on stream
  acc,             \* result of the narrowing accessor called on arg.arg
  before,          \* MutatorAttribute.requires before the last apply step
  attribute,       \* MutatorAttribute.requires
  calls,           \* the arguments apply_meta was called on, in call order
  result,          \* Ok or the error returned
  decl,            \* the ItemFn as parsed from the input
  fun,             \* the ItemFn being rewritten; Mutator.fun on success
  i,               \* index of the attribute loop
  applied_attrs,   \* the attributes apply_attr was called on, in call order
  required_fields, \* Mutator.required_fields
  sig,             \* result of Mutator::outer_sig
  args             \* result of Mutator::arguments

vars == <<pc, op, stream, arg, acc, before, attribute, calls, result, decl, fun, i,
          applied_attrs, required_fields, sig, args>>

tokenVars == <<stream, arg, acc>>
mutatorVars == <<decl, fun, i, applied_attrs, required_fields, sig, args>>

NoSig == [set |-> FALSE, asked |-> "", output |-> "", inputs |-> <<>>]
NoArgs == [set |-> FALSE, names |-> <<>>]

Init ==
  /\ pc = "idle"
  /\ op = ""
  /\ stream = <<>>
  /\ arg = Failed(<<>>)
  /\ acc = AccNone
  /\ before = {}
  /\ attribute = {}
  /\ calls = <<>>
  /\ result = Ok
  /\ decl = NoFn
  /\ fun = NoFn
  /\ i = 0
  /\ applied_attrs = <<>>
  /\ required_fields = {}
  /\ sig = NoSig
  /\ args = NoArgs

\* syn::parse2::<AttrArg> step: <AttrArg as Parse>::parse on a token stream.
AttrArgParse ==
  /\ pc = "idle"
  /\ \E s \in Streams :
       /\ stream' = s
       /\ arg' = ParseAttrArg(s)
  /\ pc' = "parsed"
  /\ op' = "AttrArg::parse"
  /\ result' = IF arg'.ok THEN Ok ELSE ParseError
  /\ UNCHANGED <<acc, before, attribute, calls>>
  /\ UNCHANGED mutatorVars

Accessed(name_, r) ==
  /\ pc = "parsed"
  /\ arg.ok
  /\ pc' = "accessed"
  /\ op' = name_
  /\ acc' = r
  /\ result' = r.res
  /\ UNCHANGED <<stream, arg, before, attribute, calls>>
  /\ UNCHANGED mutatorVars

Flag == Accessed("flag", flag(arg.arg))
KeyValue == Accessed("key_value", key_value(arg.arg))
KeyValueOrNot == Accessed("key_value_or_not", key_value_or_not(arg.arg))
SubAttr == Accessed("sub_attr", sub_attr(arg.arg))

Applied(name_, self, r) ==
  /\ pc' = "applied"
  /\ op' = name_
  /\ before' = self
  /\ attribute' = r.requires
  /\ calls' = r.calls
  /\ result' = r.res
  /\ UNCHANGED mutatorVars

\* apply_meta on a parsed argument.
ApplyMeta ==
  /\ pc = "parsed"
  /\ arg.ok
  /\ \E self \in Records :
       LET r == apply_meta(self, arg.arg)
       IN Applied("apply_meta", self,
                  [requires |-> r.requires, res |-> r.res, calls |-> <<arg.arg>>])
  /\ UNCHANGED tokenVars

\* apply_sub_attr on a parsed argument.
ApplySubAttr ==
  /\ pc = "parsed"
  /\ arg.ok
  /\ \E self \in Records : Applied("apply_sub_attr", self, apply_sub_attr(self, arg.arg))
  /\ UNCHANGED tokenVars

\* apply_subsections on the tokens of a Meta::List.
ApplySubsections ==
  /\ pc = "idle"
  /\ \E s \in Streams, self \in Records :
       /\ stream' = s
       /\ Applied("apply_subsections", self, apply_subsections(self, s))
  /\ UNCHANGED <<arg, acc>>

\* <Mutator as Parse>::parse up to the attribute loop.
MutatorParse ==
  /\ pc = "idle"
  /\ \E d \in Decls :
       /\ decl' = d
       /\ fun' = d
  /\ pc' = "scan"
  /\ op' = "Mutator::parse"
  /\ attribute' = {}
  /\ before' = {}
  /\ i' = 0
  /\ applied_attrs' = <<>>
  /\ UNCHANGED <<calls, result, required_fields, sig, args>>
  /\ UNCHANGED tokenVars

\* One iteration of while i < fun.attrs.len().
ScanStep ==
  /\ pc = "scan"
  /\ i < Len(fun.attrs)
  /\ LET attr == fun.attrs[i + 1]
     IN IF attr.path = "mutator"
        THEN LET r == apply_attr(attribute, attr)
             IN /\ before' = attribute
                /\ attribute' = r.requires
                /\ calls' = r.calls
                /\ applied_attrs' = Append(applied_attrs, attr)
                /\ IF r.res # Ok
                   THEN /\ pc' = "failed"
                        /\ result' = r.res
                        /\ UNCHANGED <<fun, i>>
                   ELSE LET n == ScanRemoved(fun.attrs, i)
                        IN /\ fun' = [fun EXCEPT !.attrs = n.attrs]
                           /\ i' = n.i
                           /\ UNCHANGED <<pc, result>>
        ELSE /\ i' = i + 1
             /\ UNCHANGED <<pc, before, attribute, calls, applied_attrs, result, fun>>
  /\ UNCHANGED <<op, decl, required_fields, sig, args>>
  /\ UNCHANGED tokenVars

\* The receiver check after the loop, and the Ok(Self { .. }) it leads to.
ReceiverCheck ==
  /\ pc = "scan"
  /\ i >= Len(fun.attrs)
  /\ LET r == EnsureReceiver(fun.inputs)
     IN IF r.ok
        THEN /\ fun' = [fun EXCEPT !.inputs = r.inputs]
             /\ required_fields' = attribute
             /\ result' = Ok
             /\ pc' = "mutator"
        ELSE /\ result' = ReceiverError
             /\ pc' = "failed"
             /\ UNCHANGED <<fun, required_fields>>
  /\ UNCHANGED <<op, before, attribute, calls, decl, i, applied_attrs, sig, args>>
  /\ UNCHANGED tokenVars

\* Mutator::outer_sig on the parsed mutator.
OuterSig ==
  /\ pc = "mutator"
  /\ ~sig.set
  /\ \E output \in Outputs :
       LET s == outer_sig(fun, output)
       IN sig' = [set |-> TRUE, asked |-> output, output |-> s.output,
                  inputs |-> s.inputs]
  /\ UNCHANGED <<pc, op, before, attribute, calls, result, decl, fun, i, applied_attrs,
                 required_fields, args>>
  /\ UNCHANGED tokenVars

\* Mutator::arguments on the parsed mutator.
Arguments ==
  /\ pc = "mutator"
  /\ ~args.set
  /\ args' = [set |-> TRUE, names |-> arguments(fun)]
  /\ UNCHANGED <<pc, op, before, attribute, calls, result, decl, fun, i, applied_attrs,
                 required_fields, sig>>
  /\ UNCHANGED tokenVars

Next ==
  \/ AttrArgParse
  \/ Flag
  \/ KeyValue
  \/ KeyValueOrNot
  \/ SubAttr
  \/ ApplyMeta
  \/ ApplySubAttr
  \/ ApplySubsections
  \/ MutatorParse
  \/ ScanStep
  \/ ReceiverCheck
  \/ OuterSig
  \/ Arguments

Spec == Init /\ [][Next]_vars

\* ---------------------------------------------------------------- claims
\* The tokens of s before its first top-level comma.
RECURSIVE UpToComma(_)
UpToComma(s) ==
  IF s = <<>> \/ Head(s) = "," THEN <<>> ELSE <<Head(s)>> \o UpToComma(Tail(s))

\* The pieces of s between its top-level commas; a trailing comma ends the
\* last piece.
RECURSIVE SplitAtCommas(_)
SplitAtCommas(s) ==
  IF s = <<>> THEN <<>>
  ELSE LET h == UpToComma(s)
           rest == Drop(s, Len(h))
       IN <<h>> \o (IF rest = <<>> THEN <<>> ELSE SplitAtCommas(Tail(rest)))

IsKeyValueInput(s) == Len(s) >= 2 /\ s[1] \in Idents /\ s[2] = "="

\* C1: parsing name = value stops at the next top-level comma: the value is
\* the tokens between = and that comma, the comma and what follows stay
\* unconsumed, and in a body the first argument applied is that key-value.
C1_KeyValueStopsAtSeparator ==
  /\ (pc = "parsed" /\ IsKeyValueInput(stream)) =>
       LET v == UpToComma(Drop(stream, 2))
       IN /\ arg.ok
          /\ arg.arg = MkArg("KeyValue", stream[1], v)
          /\ arg.rest = Drop(stream, 2 + Len(v))
  /\ (pc = "applied" /\ op = "apply_subsections" /\ IsKeyValueInput(stream)) =>
       /\ calls # <<>>
       /\ calls[1] = MkArg("KeyValue", stream[1], UpToComma(Drop(stream, 2)))

\* C4: one token of lookahead after the name decides the variant, and the
\* parsed argument carries the name that was read.
C4_ClassifiedByLookahead ==
  pc = "parsed" =>
    LET s == stream
        named == Len(s) >= 1 /\ s[1] \in Idents
    IN /\ (Len(s) >= 2 /\ s[1] = "!" /\ s[2] \in Idents) =>
            (arg.ok /\ arg.arg.variant = "Not" /\ name(arg.arg) = s[2])
       /\ (named /\ (Len(s) = 1 \/ s[2] = ",")) =>
            (arg.ok /\ arg.arg.variant = "Flag" /\ name(arg.arg) = s[1])
       /\ (named /\ Len(s) >= 2 /\ s[2] \in ParenGroups) =>
            (arg.ok /\ arg.arg.variant = "Sub" /\ name(arg.arg) = s[1]
             /\ arg.arg.value = Inner(s[2]))
       /\ (named /\ Len(s) >= 2 /\ s[2] = "=") =>
            (arg.ok /\ arg.arg.variant = "KeyValue" /\ name(arg.arg) = s[1])
       /\ (named /\ Len(s) >= 2 /\ s[2] \notin ParenGroups \cup {",", "="}) => ~arg.ok

C4_Witness ==
  /\ pc = "parsed"
  /\ stream = <<"b", "(requires=[a],b)", "!">>
  /\ arg.ok
  /\ arg.arg = MkArg("Sub", "b", <<"requires", "=", "[a]", ",", "b">>)

\* C8: a narrowing accessor returns the payload exactly when the variant
\* matches (key_value_or_not: the payload on KeyValue, none on Not), and
\* otherwise fails with the error naming the argument and its actual shape.
C8_AccessorsNarrow ==
  pc = "accessed" =>
    LET a == arg.arg
        matches == CASE op = "flag" -> a.variant = "Flag"
                     [] op = "key_value" -> a.variant = "KeyValue"
                     [] op = "sub_attr" -> a.variant = "Sub"
                     [] OTHER -> a.variant \in {"KeyValue", "Not"}
        shape == CASE a.variant = "Flag" -> "is not supported as a flag"
                   [] a.variant = "KeyValue" -> "is not supported as key-value"
                   [] a.variant = "Sub" -> "is not supported as nested attribute"
                   [] OTHER -> "cannot be nullified"
    IN /\ matches =>
            /\ acc.res = Ok
            /\ IF op = "key_value_or_not" /\ a.variant = "Not"
               THEN ~acc.some
               ELSE acc.some /\ acc.payload = a
       /\ ~matches =>
            /\ acc.res = MkErr("incorrect type", a.name, shape)
            /\ ~acc.some

C8_Witness ==
  /\ pc = "accessed"
  /\ op = "key_value_or_not"
  /\ arg.arg.variant = "Flag"
  /\ acc.res = MkErr("incorrect type", "requires", "is not supported as a flag")

\* C9: apply_meta on the mutator's record succeeds only for requires = [list
\* of identifiers]; another name gives the unknown-key error, requires in
\* another shape the shape-mismatch error, a list with a non-identifier
\* element "Expected field name"; a failure leaves the set as it was.
C9_OnlyRequiresLists ==
  /\ (pc = "applied" /\ op = "apply_meta") =>
       LET a == arg.arg
           list == parse_value(a.value)
           isList == a.name = "requires" /\ a.variant = "KeyValue" /\ list.kind = "Array"
       IN /\ result = Ok =>
               (isList /\ \A j \in 1..Len(list.elems) : list.elems[j] \in Idents)
          /\ a.name # "requires" => result = MkErr("Only requires is supported", a.name, "")
          /\ (a.name = "requires" /\ a.variant # "KeyValue") =>
               (result.msg = "incorrect type" /\ result.name = "requires")
          /\ (isList /\ \E j \in 1..Len(list.elems) : list.elems[j] \notin Idents) =>
               result = ExpectedFieldName
          /\ result # Ok => attribute = before
  /\ (pc = "failed" /\ result # ReceiverError) => attribute = before

C9_Witness ==
  /\ pc = "applied"
  /\ op = "apply_meta"
  /\ arg.arg = MkArg("KeyValue", "requires", <<"[a,1]">>)
  /\ result = ExpectedFieldName
  /\ before = {"b"}
  /\ attribute = {"b"}

\* Arguments as the grammar of an attribute body reads them: one per piece
\* between top-level commas.
IsArgSequence(s) ==
  \A j \in 1..Len(SplitAtCommas(s)) :
    LET p == ParseAttrArg(SplitAtCommas(s)[j]) IN p.ok /\ p.rest = <<>>
ArgSequence(s) ==
  [j \in 1..Len(SplitAtCommas(s)) |-> ParseAttrArg(SplitAtCommas(s)[j]).arg]
IsValidArg(a) == apply_meta({}, a).res = Ok
FirstInvalid(as) ==
  IF \A j \in 1..Len(as) : IsValidArg(as[j]) THEN Len(as) + 1
  ELSE CHOOSE k \in 1..Len(as) :
         ~IsValidArg(as[k]) /\ \A j \in 1..(k - 1) : IsValidArg(as[j])
InOrderFirstFailure(as) ==
  LET k == FirstInvalid(as)
  IN /\ calls = SubSeq(as, 1, IF k <= Len(as) THEN k ELSE Len(as))
     /\ \A j \in 1..(k - 1) : apply_meta({}, as[j]).requires \subseteq attribute
     /\ result = IF k <= Len(as) THEN apply_meta({}, as[k]).res ELSE Ok

\* C3: a body a1..an is applied left to right; at the first invalid
\* element k the effects of a1..a(k-1) stay, the error is that of ak, and
\* apply_meta is not called on a(k+1)..an.
C3_InOrderFirstFailure ==
  /\ (pc = "applied" /\ op = "apply_subsections" /\ stream # <<>>
      /\ IsArgSequence(stream)) => InOrderFirstFailure(ArgSequence(stream))
  /\ (pc = "applied" /\ op = "apply_sub_attr" /\ arg.arg.variant = "Sub"
      /\ IsArgSequence(arg.arg.value)) => InOrderFirstFailure(ArgSequence(arg.arg.value))

\* ---- Mutator
ParseDone == pc \in {"mutator", "failed"}
HasReceiver(d) == d.inputs # <<>> /\ d.inputs[1].kind = "Receiver"
IsMutatorAttr(a) == a.path = "mutator"
IsOtherAttr(a) == a.path # "mutator"
AnnotationsApply(d) ==
  \A j \in 1..Len(d.attrs) :
    IsMutatorAttr(d.attrs[j]) => apply_attr({}, d.attrs[j]).res = Ok

\* C2 as stated: parsing succeeds only on a first parameter that already
\* is &mut self, and fails with the receiver error on every other one.
C2_OnlyMutRefReceiver ==
  ParseDone =>
    \/ (decl.inputs # <<>> /\ decl.inputs[1] = Receiver("&mut self"))
    \/ (pc = "failed" /\ result = ReceiverError)

\* C2 amended: parsing succeeds only if the first parameter is a receiver
\* of any form, which is rewritten to &mut self; with no parameter or a
\* typed first parameter it fails and no Mutator is produced, with the
\* receiver error whenever the mutator annotations applied without error.
C2_ReceiverRequired ==
  ParseDone =>
    /\ pc = "mutator" => (HasReceiver(decl) /\ fun.inputs[1] = Receiver("&mut self"))
    /\ ~HasReceiver(decl) =>
         /\ pc = "failed"
         /\ sig = NoSig /\ args = NoArgs
         /\ AnnotationsApply(decl) => result = ReceiverError

C2_Witness ==
  /\ pc = "failed"
  /\ decl.attrs # <<>>
  /\ decl.inputs # <<>> /\ decl.inputs[1].kind = "Typed"
  /\ result = ReceiverError

\* C5: the outer signature keeps number and order of the parameters and has
\* the requested return type; the receiver becomes self, the parameter at
\* zero-based position i keeps its type and is named by its own identifier
\* (Pat::Ident) or else __i; arguments() lists the names of the
\* non-receiver parameters of the outer signature in order.
C5_OuterSigAndArguments ==
  (pc = "mutator" /\ sig.set /\ args.set) =>
    LET n == Len(decl.inputs)
    IN /\ Len(sig.inputs) = n
       /\ sig.output = sig.asked
       /\ sig.inputs[1] = Receiver("self")
       /\ \A j \in 2..n :
            /\ sig.inputs[j].kind = "Typed"
            /\ sig.inputs[j].ty = decl.inputs[j].ty
            /\ sig.inputs[j].pat = "Ident" /\ sig.inputs[j].plain
            /\ sig.inputs[j].ident =
                 IF decl.inputs[j].pat = "Ident" THEN decl.inputs[j].ident
                 ELSE "__" \o ToString(j - 1)
       /\ args.names = [j \in 1..(n - 1) |-> sig.inputs[j + 1].ident]

C5_Witness ==
  /\ pc = "mutator"
  /\ sig.set /\ args.set
  /\ Len(decl.inputs) = 3
  /\ decl.inputs[3].pat = "Tuple"
  /\ args.names = <<"x", "__2">>

\* C6: when the declared simple names are pairwise distinct, the names of
\* arguments() are pairwise distinct.
C6_SynthesizedNamesUnique ==
  (pc = "mutator" /\ args.set
   /\ \A j, k \in 1..Len(decl.inputs) :
        (j # k /\ decl.inputs[j].pat = "Ident" /\ decl.inputs[k].pat = "Ident")
          => decl.inputs[j].ident # decl.inputs[k].ident)
    => \A j, k \in 1..Len(args.names) : j # k => args.names[j] # args.names[k]

\* The identifiers written inside the brackets of the mutator annotations.
ListedFields(d) ==
  UNION {{t \in Range(Inner(g)) : t \in Idents} :
           g \in UNION {Range(d.attrs[j].tokens) \cap BracketGroups :
                          j \in {k \in 1..Len(d.attrs) : IsMutatorAttr(d.attrs[k])}}}

\* C7: after a successful parse required_fields is the set of identifiers
\* listed in the requires lists, whatever their order or multiplicity.
C7_RequiredFieldsAreListed ==
  pc = "mutator" => required_fields = ListedFields(decl)

C7_Witness ==
  /\ pc = "mutator"
  /\ Len(decl.attrs) = 2
  /\ decl.attrs[1].tokens = <<"requires", "=", "[b,a]">>
  /\ decl.attrs[2].tokens = <<"requires", "=", "[a,a]">>
  /\ required_fields = {"a", "b"}

\* C10: after a successful parse the remaining annotations are the
\* original ones without the mutator annotations, in order; each mutator
\* annotation was applied once, in declaration order; and the scan ends:
\* every iteration that stays in the loop lowers the number of attributes
\* still to visit, which is never negative.
C10_MutatorAttrsRemoved ==
  /\ [](pc = "mutator" =>
          /\ fun.attrs = SelectSeq(decl.attrs, IsOtherAttr)
          /\ applied_attrs = SelectSeq(decl.attrs, IsMutatorAttr))
  /\ [](pc = "scan" => (0 <= i /\ i <= Len(fun.attrs)))
  /\ [][(pc = "scan" /\ pc' = "scan") =>
          Len(fun'.attrs) - i' < Len(fun.attrs) - i]_vars

C10_Witness ==
  /\ pc = "mutator"
  /\ Len(decl.attrs) = 3
  /\ IsMutatorAttr(decl.attrs[1]) /\ IsMutatorAttr(decl.attrs[2])
  /\ IsOtherAttr(decl.attrs[3])
  /\ fun.attrs = <<decl.attrs[3]>>
  /\ Len(applied_attrs) = 2
====
